---- MODULE Spec2Model ----
(***************************************************************************)
(* Model of the Polymarket trade indexer: the SQLite store (db/store.py,   *)
(* db/schema.py), market discovery (indexer/market_discovery.py) and the   *)
(* indexing pipeline (indexer/run.py).                                      *)
(*                                                                         *)
(* Representation notes.  Text that the code converts (addresses,          *)
(* condition ids, outcome labels, decimal token ids) enters the model as a *)
(* sequence of one-character strings and leaves a conversion as a string.  *)
(* Python None / SQL NULL in a text column is the string NULL; in an       *)
(* optional dict it is the empty sequence.  A float is kept as the reduced *)
(* fraction <<numerator, denominator>>.                                    *)
(***************************************************************************)
EXTENDS Integers, Sequences, FiniteSets, TLC

VARIABLES
    markets,                \* table markets, in id order
    trades,                 \* table trades, in id order
    last_block,             \* sync_state row 'last_block'
    block_timestamp_cache,  \* Indexer.block_timestamp_cache
    pc,                     \* position of the running run_indexer call
    from_block,
    to_block,
    event_slug,
    logs,                   \* logs of the range not yet processed
    processed_trades,
    ret,                    \* what the caller of run_indexer last received
    faults,                 \* history: fetch and storage failures met by the current run
    discovered,             \* history: token ids discovery was invoked for in the current run
    covered,                \* history: blocks inside the range of a run that finished its loop and insert
    track,                  \* history: interrupted run awaiting its replay
    call                    \* history: last direct Store call

vars ==
    <<markets, trades, last_block, block_timestamp_cache, pc, from_block,
      to_block, event_slug, logs, processed_trades, ret, faults, discovered, covered,
      track, call>>

storeVars ==
    <<markets, trades, last_block>>

runVars ==
    <<pc, from_block, to_block, event_slug, logs, processed_trades, ret, faults,
      discovered, covered>>

-----------------------------------------------------------------------------
(* Bounds *)

MaxBlock ==
    2

MaxBatch ==
    2

MaxSync ==
    1

MaxAmount ==
    2

MaxMarkets ==
    3

MaxCalls ==
    4

MaxToken ==
    16

MaxEvent ==
    2

-----------------------------------------------------------------------------
(* Values *)

NULL ==
    "None"

None ==
    <<>>

Some(x) ==
    <<x>>

RECURSIVE Join(_)
Join(cs) ==
    IF cs = <<>> THEN "" ELSE Head(cs) \o Join(Tail(cs))

HexChars ==
    <<"0", "1", "2", "3", "4", "5", "6", "7", "8", "9", "a", "b", "c", "d", "e", "f">>

RECURSIVE HexDigits(_)
HexDigits(n) ==
    IF n < 16 THEN HexChars[n + 1]
    ELSE HexDigits(n \div 16) \o HexChars[(n % 16) + 1]

\* Python hex(n) for n >= 0: "0x" and the digits without leading zeros.
hex(n) ==
    "0x" \o HexDigits(n)

LowerChar(c) ==
    CASE c = "A" -> "a" [] c = "B" -> "b" [] c = "C" -> "c" [] c = "D" -> "d"
      [] c = "E" -> "e" [] c = "F" -> "f" [] c = "N" -> "n" [] c = "O" -> "o"
      [] c = "S" -> "s" [] c = "T" -> "t" [] c = "X" -> "x" [] c = "Y" -> "y"
      [] OTHER -> c

UpperChar(c) ==
    CASE c = "a" -> "A" [] c = "b" -> "B" [] c = "c" -> "C" [] c = "d" -> "D"
      [] c = "e" -> "E" [] c = "f" -> "F" [] c = "n" -> "N" [] c = "o" -> "O"
      [] c = "s" -> "S" [] c = "t" -> "T" [] c = "x" -> "X" [] c = "y" -> "Y"
      [] OTHER -> c

\* str.lower() / str.upper()
lower(cs) ==
    Join([i \in 1..Len(cs) |-> LowerChar(cs[i])])

upper(cs) ==
    Join([i \in 1..Len(cs) |-> UpperChar(cs[i])])

DigitValue(c) ==
    CASE c = "0" -> 0 [] c = "1" -> 1 [] c = "2" -> 2 [] c = "3" -> 3
      [] c = "4" -> 4 [] c = "5" -> 5 [] c = "6" -> 6 [] c = "7" -> 7
      [] c = "8" -> 8 [] c = "9" -> 9 [] OTHER -> -1

IsDecimal(cs) ==
    /\ Len(cs) > 0
    /\ \A i \in 1..Len(cs) : DigitValue(cs[i]) >= 0

RECURSIVE int_base16(_)
\* a conversion that reads the digits of the text in base 16
int_base16(cs) ==
    IF Len(cs) = 0 THEN 0
    ELSE 16 * int_base16(SubSeq(cs, 1, Len(cs) - 1)) + DigitValue(cs[Len(cs)])

RECURSIVE int(_)
\* Python int(text) on a text of decimal digits
int(cs) ==
    IF Len(cs) = 0 THEN 0
    ELSE 10 * int(SubSeq(cs, 1, Len(cs) - 1)) + DigitValue(cs[Len(cs)])

RECURSIVE GCD(_, _)
GCD(a, b) ==
    IF b = 0 THEN a ELSE GCD(b, a % b)

\* a ratio without the guard: a zero divisor leaves the dividend as the price
Ratio_unguarded(a, b) ==
    IF b = 0 THEN <<a, 1>>
    ELSE <<a \div GCD(a, b), b \div GCD(a, b)>>

\* float(Decimal(a) / Decimal(b)), with the bare except that turns a zero divisor into Decimal(0)
Ratio(a, b) ==
    IF b = 0 THEN <<0, 1>>
    ELSE <<a \div GCD(a, b), b \div GCD(a, b)>>

\* w3.to_hex(bytes): two hex digits per byte
RECURSIVE to_hex_digits(_)
to_hex_digits(bs) ==
    IF bs = <<>> THEN ""
    ELSE HexChars[(Head(bs) \div 16) + 1] \o HexChars[(Head(bs) % 16) + 1] \o to_hex_digits(Tail(bs))

to_hex(bs) ==
    "0x" \o to_hex_digits(bs)

-----------------------------------------------------------------------------
(* db/schema.py and db/store.py *)

\* CREATE UNIQUE INDEX idx_trades_tx_log ON trades(tx_hash, log_index)
Key(t) ==
    <<t.tx_hash, t.log_index>>

Keys(tbl) ==
    {Key(tbl[i]) : i \in 1..Len(tbl)}

\* The ten named parameters of the INSERT; id is the AUTOINCREMENT primary key.
TradeRow(id, t) ==
    [id |-> id, tx_hash |-> t.tx_hash, log_index |-> t.log_index,
     market_id |-> t.market_id, maker |-> t.maker, taker |-> t.taker,
     side |-> t.side, outcome |-> t.outcome, price |-> t.price,
     size |-> t.size, timestamp |-> t.timestamp]

\* INSERT OR REPLACE semantics, used only to compare against OrIgnoreRow
OrReplaceRow(tbl, t) ==
    IF Key(t) \in Keys(tbl)
    THEN [i \in 1..Len(tbl) |-> IF Key(tbl[i]) = Key(t) THEN TradeRow(tbl[i].id, t) ELSE tbl[i]]
    ELSE Append(tbl, TradeRow(Len(tbl) + 1, t))

\* plain INSERT semantics without the unique index, used only to compare against OrIgnoreRow
PlainInsertRow(tbl, t) ==
    Append(tbl, TradeRow(Len(tbl) + 1, t))

\* INSERT OR IGNORE of one row: a row whose key exists is skipped
OrIgnoreRow(tbl, t) ==
    IF Key(t) \in Keys(tbl) THEN tbl
    ELSE Append(tbl, TradeRow(Len(tbl) + 1, t))

RECURSIVE executemany(_, _)
executemany(tbl, trades_list) ==
    IF trades_list = <<>> THEN tbl
    ELSE executemany(OrIgnoreRow(tbl, Head(trades_list)), Tail(trades_list))

\* insert_trades that commits what it wrote before the failure
insert_trades_partial(tbl, trades_list, failAt) ==
    IF trades_list = <<>> THEN [trades |-> tbl, raised |-> FALSE]
    ELSE IF failAt \in 1..(Len(trades_list) + 1)
         THEN [trades |-> executemany(tbl, SubSeq(trades_list, 1, failAt - 1)), raised |-> TRUE]
         ELSE [trades |-> executemany(tbl, trades_list), raised |-> FALSE]

\* insert_trades that swallows the storage error
insert_trades_swallow(tbl, trades_list, failAt) ==
    IF trades_list = <<>> THEN [trades |-> tbl, raised |-> FALSE]
    ELSE IF failAt \in 1..(Len(trades_list) + 1)
         THEN [trades |-> tbl, raised |-> FALSE]
         ELSE [trades |-> executemany(tbl, trades_list), raised |-> FALSE]

\* insert_trades that never commits
insert_trades_nocommit(tbl, trades_list, failAt) ==
    IF trades_list = <<>> THEN [trades |-> tbl, raised |-> FALSE]
    ELSE [trades |-> tbl, raised |-> failAt \in 1..(Len(trades_list) + 1)]

\* Store.insert_trades.  failAt = k in 1..Len: the k-th row hits a storage
\* error; failAt = Len + 1: the commit does; 0: no storage error.  The rows
\* written before the failure are in the open transaction and are rolled back.
insert_trades(tbl, trades_list, failAt) ==
    IF trades_list = <<>> THEN [trades |-> tbl, raised |-> FALSE]
    ELSE IF failAt \in 1..(Len(trades_list) + 1)
         THEN LET work == executemany(tbl, SubSeq(trades_list, 1, failAt - 1))
                  rollback == tbl
              IN  [trades |-> rollback, raised |-> TRUE]
         ELSE [trades |-> executemany(tbl, trades_list), raised |-> FALSE]

\* SELECT id FROM markets WHERE condition_id = ?  (NULL = NULL is not true in SQL)
MarketIdsByCondition(tbl, cid) ==
    {i \in 1..Len(tbl) : cid # NULL /\ tbl[i].condition_id = cid}

\* upsert_market that replaces the row it finds by a row with a new id
upsert_market_reid(tbl, market_data, fail) ==
    IF fail THEN [markets |-> tbl, raised |-> TRUE]
    ELSE LET found == MarketIdsByCondition(tbl, market_data.condition_id)
             row == [id |-> Len(tbl) + 1,
                     slug |-> market_data.slug,
                     condition_id |-> market_data.condition_id,
                     question_id |-> market_data.question_id,
                     yes_token_id |-> market_data.yes_token_id,
                     no_token_id |-> market_data.no_token_id,
                     status |-> market_data.status]
         IN  IF found # {}
             THEN [markets |-> [tbl EXCEPT ![CHOOSE i \in found : TRUE] = row],
                   raised |-> FALSE]
             ELSE [markets |-> Append(tbl, row), raised |-> FALSE]

\* Store.upsert_market
upsert_market(tbl, market_data, fail) ==
    IF fail THEN [markets |-> tbl, raised |-> TRUE]
    ELSE LET found == MarketIdsByCondition(tbl, market_data.condition_id)
         IN  IF found # {}
             THEN LET market_id == CHOOSE i \in found : \A j \in found : i <= j
                  IN  [markets |-> [tbl EXCEPT ![market_id] =
                                       [@ EXCEPT !.slug = market_data.slug,
                                                 !.question_id = market_data.question_id,
                                                 !.yes_token_id = market_data.yes_token_id,
                                                 !.no_token_id = market_data.no_token_id,
                                                 !.status = market_data.status]],
                       raised |-> FALSE]
             ELSE [markets |-> Append(tbl,
                                  [id |-> Len(tbl) + 1,
                                   slug |-> market_data.slug,
                                   condition_id |-> market_data.condition_id,
                                   question_id |-> market_data.question_id,
                                   yes_token_id |-> market_data.yes_token_id,
                                   no_token_id |-> market_data.no_token_id,
                                   status |-> market_data.status]),
                   raised |-> FALSE]

\* update_sync_state that writes the block before the requested one
update_sync_state_off(value, block_number, fail) ==
    IF fail THEN [last_block |-> value, raised |-> TRUE]
    ELSE [last_block |-> block_number - 1, raised |-> FALSE]

\* Store.update_sync_state: INSERT OR REPLACE of the single row
update_sync_state(value, block_number, fail) ==
    IF fail THEN [last_block |-> value, raised |-> TRUE]
    ELSE [last_block |-> block_number, raised |-> FALSE]

\* Store.get_sync_state
get_sync_state ==
    last_block

\* a lookup that returns the first market row whatever its tokens
fetch_market_by_token_id_first(tbl, token_id) ==
    IF tbl = <<>> THEN None ELSE Some(tbl[1])

\* Store.fetch_market_by_token_id: fetchone() of the rows matching either column
fetch_market_by_token_id(tbl, token_id) ==
    LET hits == {i \in 1..Len(tbl) : tbl[i].yes_token_id = token_id \/ tbl[i].no_token_id = token_id}
    IN  IF hits = {} THEN None
        ELSE Some(tbl[CHOOSE i \in hits : \A j \in hits : i <= j])

-----------------------------------------------------------------------------
(* Collaborators: the chain RPC and the Gamma registry *)

Blocks ==
    1..MaxBlock

\* block['timestamp']; never 0 for a real block
BlockTimestamp(b) ==
    1000 + b

ExchangeAddress ==
    <<"0", "x", "4", "b", "F", "b">>

OtherTaker ==
    <<"0", "x", "T", "a", "c", "e">>

MakerAddress ==
    <<"0", "x", "A", "b", "c", "d">>

RawLog(b, i, decodable, taker, makerAssetId, takerAssetId, makerAmount, takerAmount) ==
    [address |-> ExchangeAddress, transactionHash |-> <<b>>, logIndex |-> i,
     blockNumber |-> b, decodable |-> decodable, maker |-> MakerAddress, taker |-> taker,
     makerAssetId |-> makerAssetId, takerAssetId |-> takerAssetId,
     makerAmountFilled |-> makerAmount, takerAmountFilled |-> takerAmount]

\* The chain's OrderFilled logs of block b.  Token 10 and 11 belong to the
\* registry's market, token 99 to no market; the blocks after the second
\* hold one fill whose taker is the exchange itself.
LogsOfBlock(b) ==
    CASE b = 1 ->
           << RawLog(b, 0, TRUE, OtherTaker, 0, 10, 1, 2),
              RawLog(b, 1, TRUE, <<"0", "X", "4", "B", "f", "B">>, 0, 10, 1, 1),
              RawLog(b, 2, TRUE, OtherTaker, 0, 99, 3, 0) >>
      [] b = 2 ->
           << RawLog(b, 0, TRUE, OtherTaker, 11, 0, 2, 1),
              RawLog(b, 1, FALSE, OtherTaker, 0, 10, 1, 1),
              RawLog(b, 2, TRUE, OtherTaker, 99, 0, 0, 1) >>
      [] OTHER ->
           << RawLog(b, 0, TRUE, ExchangeAddress, 10, 0, 1, 1) >>

RECURSIVE get_logs(_, _)
\* w3.eth.get_logs: the logs of from..to in ascending block, then log index
get_logs(from, to) ==
    IF from > to THEN <<>>
    ELSE LogsOfBlock(from) \o get_logs(from + 1, to)

Slugs ==
    {"", "s1"}

\* fetch_markets_by_slug: the markets of the events the Gamma API returns for the slug
GammaMarkets(slug) ==
    IF slug = "s1"
    THEN << [slug |-> "m-a", conditionId |-> Some(<<"0", "x", "C", "1">>),
             questionID |-> Some(<<"0", "x", "Q", "1">>),
             active |-> TRUE, closed |-> FALSE, resolved |-> FALSE,
             clobTokenIds |-> << <<"1", "1">>, <<"1", "0">> >>,
             outcomes |-> << <<"N", "o">>, <<"Y", "e", "s">> >>],
            [slug |-> "m-b", conditionId |-> Some(<<"0", "x", "C", "2">>),
             questionID |-> None,
             active |-> TRUE, closed |-> TRUE, resolved |-> FALSE,
             clobTokenIds |-> << <<"2", "0">> >>,
             outcomes |-> << <<"Y", "e", "s">>, <<"N", "o">> >>] >>
    ELSE <<>>

fetch_markets_by_slug(slug, fetchOk) ==
    IF fetchOk THEN GammaMarkets(slug) ELSE <<>>

-----------------------------------------------------------------------------
(* indexer/market_discovery.py *)

LowerOpt(o) ==
    IF o = None \/ o = Some(<<>>) THEN (IF o = None THEN NULL ELSE "") ELSE lower(o[1])

RECURSIVE MatchToken(_, _, _, _)
\* the for loop of process_market_data: the last outcome equal to label wins
MatchToken(outcomes, tokens, label, acc) ==
    IF outcomes = <<>> THEN acc
    ELSE MatchToken(Tail(outcomes), Tail(tokens), label,
                    IF upper(Head(outcomes)) = label THEN Head(tokens) ELSE acc)

\* a process_market_data without the comparison of the two lengths
process_market_data_nocheck(market) ==
    LET status0 == IF market.active THEN "ACTIVE" ELSE "CLOSED"
        status1 == IF market.closed THEN "CLOSED" ELSE status0
        status == IF market.resolved THEN "RESOLVED" ELSE status1
        texts == market.clobTokenIds
        n == IF Len(texts) < Len(market.outcomes) THEN Len(texts) ELSE Len(market.outcomes)
        outcomes == SubSeq(market.outcomes, 1, n)
    IN  IF \E i \in 1..Len(texts) : ~IsDecimal(texts[i]) THEN None
        ELSE LET clob_token_ids == [i \in 1..n |-> hex(int(texts[i]))]
             IN  IF Len(texts) = 0 \/ Len(market.outcomes) = 0
                 THEN None
                 ELSE Some([slug |-> market.slug,
                            condition_id |-> LowerOpt(market.conditionId),
                            question_id |-> LowerOpt(market.questionID),
                            yes_token_id |-> MatchToken(outcomes, clob_token_ids, "YES", NULL),
                            no_token_id |-> MatchToken(outcomes, clob_token_ids, "NO", NULL),
                            status |-> status])

\* process_market_data: None, or the dict handed to upsert_market
process_market_data(market) ==
    LET status0 == IF market.active THEN "ACTIVE" ELSE "CLOSED"
        status1 == IF market.closed THEN "CLOSED" ELSE status0
        status == IF market.resolved THEN "RESOLVED" ELSE status1
        texts == market.clobTokenIds
        outcomes == market.outcomes
    IN  IF \E i \in 1..Len(texts) : ~IsDecimal(texts[i]) THEN None
        ELSE LET clob_token_ids == [i \in 1..Len(texts) |-> hex(int(texts[i]))]
             IN  IF Len(clob_token_ids) = 0 \/ Len(outcomes) = 0
                    \/ Len(clob_token_ids) # Len(outcomes)
                 THEN None
                 ELSE Some([slug |-> market.slug,
                            condition_id |-> LowerOpt(market.conditionId),
                            question_id |-> LowerOpt(market.questionID),
                            yes_token_id |-> MatchToken(outcomes, clob_token_ids, "YES", NULL),
                            no_token_id |-> MatchToken(outcomes, clob_token_ids, "NO", NULL),
                            status |-> status])

RECURSIVE StoreMarkets(_, _, _, _)
\* the loop of discover_and_store_markets over the fetched markets; the
\* upsert of the market at position upsertFailAt raises
StoreMarkets(tbl, raws, pos, upsertFailAt) ==
    IF raws = <<>> THEN [markets |-> tbl, raised |-> FALSE, count |-> 0]
    ELSE LET market_data == process_market_data(Head(raws))
         IN  IF market_data = None
             THEN StoreMarkets(tbl, Tail(raws), pos + 1, upsertFailAt)
             ELSE LET u == upsert_market(tbl, market_data[1], pos = upsertFailAt)
                  IN  IF u.raised THEN [markets |-> tbl, raised |-> TRUE, count |-> 0]
                      ELSE LET rest == StoreMarkets(u.markets, Tail(raws), pos + 1, upsertFailAt)
                           IN  [rest EXCEPT !.count = @ + 1]

\* discover_and_store_markets(slug, store)
discover_and_store_markets(slug, tbl, fetchOk, upsertFailAt) ==
    StoreMarkets(tbl, fetch_markets_by_slug(slug, fetchOk), 1, upsertFailAt)

-----------------------------------------------------------------------------
(* indexer/run.py *)

\* block_timestamp_cache is kept as the set of its <<block_number, timestamp>> items
CachedBlocks(cache) ==
    {e[1] : e \in cache}

CacheValue(cache, b) ==
    (CHOOSE e \in cache : e[1] = b)[2]

\* get_block_timestamp that never stores what get_block answered
get_block_timestamp_nocache(cache, block_number, blockOk) ==
    IF block_number \in CachedBlocks(cache)
    THEN [timestamp |-> CacheValue(cache, block_number), cache |-> cache, rpc |-> FALSE]
    ELSE IF blockOk
         THEN [timestamp |-> BlockTimestamp(block_number), cache |-> cache, rpc |-> TRUE]
         ELSE [timestamp |-> 0, cache |-> cache, rpc |-> TRUE]

\* get_block_timestamp that stores the 0 of a failed get_block
get_block_timestamp_cachezero(cache, block_number, blockOk) ==
    IF block_number \in CachedBlocks(cache)
    THEN [timestamp |-> CacheValue(cache, block_number), cache |-> cache, rpc |-> FALSE]
    ELSE IF blockOk
         THEN [timestamp |-> BlockTimestamp(block_number),
               cache |-> cache \cup {<<block_number, BlockTimestamp(block_number)>>}, rpc |-> TRUE]
         ELSE [timestamp |-> 0, cache |-> cache \cup {<<block_number, 0>>}, rpc |-> TRUE]

\* Indexer.get_block_timestamp; rpc says whether w3.eth.get_block was called
get_block_timestamp(cache, block_number, blockOk) ==
    IF block_number \in CachedBlocks(cache)
    THEN [timestamp |-> CacheValue(cache, block_number), cache |-> cache, rpc |-> FALSE]
    ELSE IF blockOk
         THEN [timestamp |-> BlockTimestamp(block_number),
               cache |-> cache \cup {<<block_number, BlockTimestamp(block_number)>>}, rpc |-> TRUE]
         ELSE [timestamp |-> 0, cache |-> cache, rpc |-> TRUE]

\* the rule table with the price of the SELL branch inverted
Normalize_swapped(args) ==
    IF args.makerAssetId = 0
    THEN [side |-> "BUY", price |-> Ratio(args.makerAmountFilled, args.takerAmountFilled),
          token_id_int |-> args.takerAssetId, size |-> <<args.takerAmountFilled, 1>>]
    ELSE [side |-> "SELL", price |-> Ratio(args.makerAmountFilled, args.takerAmountFilled),
          token_id_int |-> args.makerAssetId, size |-> <<args.makerAmountFilled, 1>>]

\* lines 123-153: side, price, token id and size of a decoded fill event
Normalize(args) ==
    IF args.makerAssetId = 0
    THEN [side |-> "BUY", price |-> Ratio(args.makerAmountFilled, args.takerAmountFilled),
          token_id_int |-> args.takerAssetId, size |-> <<args.takerAmountFilled, 1>>]
    ELSE [side |-> "SELL", price |-> Ratio(args.takerAmountFilled, args.makerAmountFilled),
          token_id_int |-> args.makerAssetId, size |-> <<args.makerAmountFilled, 1>>]

NoEnvFault ==
    [fetchOk |-> TRUE, upsertFailAt |-> 0, blockOk |-> TRUE]

EnvChoices ==
    [fetchOk : BOOLEAN, upsertFailAt : 0..1, blockOk : BOOLEAN]

Dropped(tbl, cache, raised, fs, lookups, discoveries) ==
    [trade |-> None, markets |-> tbl, cache |-> cache, raised |-> raised,
     faults |-> fs, lookups |-> lookups, discoveries |-> discoveries, rpc |-> FALSE]

\* Indexer.decode_and_process_log.  env fixes the answers of the collaborators
\* that the call may consult.  The result carries the trade (None when the
\* log is dropped), the store and cache it leaves, whether an exception
\* escaped, and how many lookups and discoveries it made.
decode_and_process_log(log, slug, tbl, cache, env) ==
    IF ~log.decodable THEN Dropped(tbl, cache, FALSE, {}, 0, 0)
    ELSE IF lower(log.taker) = lower(log.address) THEN Dropped(tbl, cache, FALSE, {}, 0, 0)
    ELSE
      LET n == Normalize(log)
          token_id_hex == hex(n.token_id_int)
          first == fetch_market_by_token_id(tbl, token_id_hex)
          discover == first = None /\ slug # ""
          d == IF discover
               THEN discover_and_store_markets(slug, tbl, env.fetchOk, env.upsertFailAt)
               ELSE [markets |-> tbl, raised |-> FALSE, count |-> 0]
          dfaults == IF discover
                     THEN (IF env.fetchOk THEN {} ELSE {"registry"})
                          \cup (IF d.raised THEN {"upsert_market"} ELSE {})
                     ELSE {}
          nd == IF discover THEN 1 ELSE 0
          market == IF discover THEN fetch_market_by_token_id(d.markets, token_id_hex) ELSE first
      IN  IF d.raised THEN Dropped(d.markets, cache, TRUE, dfaults, 1, nd)
          ELSE IF market = None THEN Dropped(d.markets, cache, FALSE, dfaults, 1 + nd, nd)
          ELSE
            LET m == market[1]
                outcome == IF m.yes_token_id = token_id_hex THEN "YES"
                           ELSE IF m.no_token_id = token_id_hex THEN "NO" ELSE ""
                ts == get_block_timestamp(cache, log.blockNumber, env.blockOk)
            IN  [trade |-> Some([tx_hash |-> to_hex(log.transactionHash),
                                 log_index |-> log.logIndex,
                                 market_id |-> m.id,
                                 maker |-> Join(log.maker),
                                 taker |-> Join(log.taker),
                                 side |-> n.side,
                                 outcome |-> outcome,
                                 price |-> n.price,
                                 size |-> n.size,
                                 timestamp |-> ts.timestamp,
                                 token_id |-> token_id_hex,
                                 block_number |-> log.blockNumber]),
                 markets |-> d.markets,
                 cache |-> ts.cache,
                 raised |-> FALSE,
                 faults |-> dfaults \cup (IF ts.rpc /\ ~env.blockOk THEN {"get_block"} ELSE {}),
                 lookups |-> 1 + nd,
                 discoveries |-> nd,
                 rpc |-> ts.rpc]

\* the collaborator answers that a call of decode_and_process_log can observe:
\* the registry only when discovery runs, get_block only on a cache miss
ObservableEnv(log, slug, tbl, cache) ==
    LET r == decode_and_process_log(log, slug, tbl, cache, NoEnvFault)
    IN  {env \in EnvChoices :
            /\ r.discoveries = 0 => env.fetchOk /\ env.upsertFailAt = 0
            /\ ~r.rpc => env.blockOk}

-----------------------------------------------------------------------------
(* State machine of run_indexer *)

\* the failures the spec lets abort a run: the fetch and the storage calls
AbortKinds ==
    {"get_logs", "upsert_market", "insert_trades", "update_sync_state"}

NoReturn ==
    [kind |-> "none", value |-> <<>>]

Returned(list) ==
    [kind |-> "return", value |-> list]

Raised ==
    [kind |-> "raise", value |-> <<>>]

Crashed ==
    [kind |-> "crash", value |-> <<>>]

Snapshot ==
    [markets |-> markets, trades |-> trades, last_block |-> last_block]

NoSnapshot ==
    [markets |-> <<>>, trades |-> <<>>, last_block |-> 0]

NoTrack ==
    [phase |-> "none", pre |-> NoSnapshot, from |-> 0, to |-> 0, slug |-> "",
     rfrom |-> 0, rto |-> 0]

NoCall ==
    [op |-> "none", batch |-> <<>>, failAt |-> 0, raised |-> FALSE,
     before |-> <<>>, repeat |-> FALSE, committed |-> {}]

Init ==
    /\ markets = <<>>
    /\ trades = <<>>
    /\ last_block = 0
    /\ block_timestamp_cache = {}
    /\ pc = "idle"
    /\ from_block = 0
    /\ to_block = 0
    /\ event_slug = ""
    /\ logs = <<>>
    /\ processed_trades = <<>>
    /\ ret = NoReturn
    /\ faults = {}
    /\ discovered = <<>>
    /\ covered = {}
    /\ track = NoTrack
    /\ call = NoCall

\* run.py 67-84: the call starts and get_logs answers
GetLogs(from, to, slug) ==
    /\ pc = "idle"
    /\ pc' = "loop"
    /\ from_block' = from
    /\ to_block' = to
    /\ event_slug' = slug
    /\ logs' = get_logs(from, to)
    /\ processed_trades' = <<>>
    /\ ret' = NoReturn
    /\ faults' = {}
    /\ discovered' = <<>>
    /\ covered' = covered
    /\ UNCHANGED <<markets, trades, last_block, block_timestamp_cache>>

\* a failed fetch that nevertheless writes the checkpoint
GetLogsFails_advance(from, to, slug) ==
    /\ pc = "idle"
    /\ pc' = "idle"
    /\ from_block' = 0
    /\ to_block' = to
    /\ event_slug' = ""
    /\ logs' = <<>>
    /\ processed_trades' = <<>>
    /\ ret' = Returned(<<>>)
    /\ faults' = {"get_logs"}
    /\ discovered' = <<>>
    /\ covered' = covered
    /\ last_block' = to
    /\ UNCHANGED <<markets, trades, block_timestamp_cache>>

\* run.py 82-87: get_logs raises; the error is logged and [] is returned
GetLogsFails(from, to, slug) ==
    /\ pc = "idle"
    /\ pc' = "idle"
    /\ from_block' = 0
    /\ to_block' = to
    /\ event_slug' = ""
    /\ logs' = <<>>
    /\ processed_trades' = <<>>
    /\ ret' = Returned(<<>>)
    /\ faults' = {"get_logs"}
    /\ discovered' = <<>>
    /\ covered' = covered
    /\ UNCHANGED <<markets, trades, last_block, block_timestamp_cache>>

\* a loop in which an exception escaping decode_and_process_log ends the run
ProcessLog_abort(env) ==
    /\ pc = "loop"
    /\ logs # <<>>
    /\ LET r == decode_and_process_log(Head(logs), event_slug, markets,
                                       block_timestamp_cache, env)
       IN  /\ markets' = r.markets
           /\ block_timestamp_cache' = r.cache
           /\ processed_trades' = IF ~r.raised /\ r.trade # None
                                  THEN Append(processed_trades, r.trade[1])
                                  ELSE processed_trades
           /\ faults' = faults \cup (r.faults \cap AbortKinds)
           /\ discovered' = discovered
           /\ covered' = covered
           /\ pc' = IF r.raised THEN "idle" ELSE pc
           /\ ret' = IF r.raised THEN Raised ELSE ret
    /\ logs' = Tail(logs)
    /\ UNCHANGED <<trades, last_block, from_block, to_block, event_slug>>

\* a loop that puts each new trade in front of the batch
ProcessLog_prepend(env) ==
    /\ pc = "loop"
    /\ logs # <<>>
    /\ LET r == decode_and_process_log(Head(logs), event_slug, markets,
                                       block_timestamp_cache, env)
       IN  /\ markets' = r.markets
           /\ block_timestamp_cache' = r.cache
           /\ processed_trades' = IF ~r.raised /\ r.trade # None
                                  THEN <<r.trade[1]>> \o processed_trades
                                  ELSE processed_trades
           /\ faults' = faults \cup (r.faults \cap AbortKinds)
           /\ discovered' = IF r.discoveries > 0
                             THEN Append(discovered, hex(Normalize(Head(logs)).token_id_int))
                             ELSE discovered
           /\ covered' = covered
    /\ logs' = Tail(logs)
    /\ UNCHANGED <<trades, last_block, pc, from_block, to_block, event_slug, ret>>

\* a loop that goes over the range again when the discovery made for the
\* last log stored a market
ProcessLog_retry(env) ==
    /\ pc = "loop"
    /\ logs # <<>>
    /\ LET r == decode_and_process_log(Head(logs), event_slug, markets,
                                       block_timestamp_cache, env)
       IN  /\ markets' = r.markets
           /\ block_timestamp_cache' = r.cache
           /\ processed_trades' = IF ~r.raised /\ r.trade # None
                                  THEN Append(processed_trades, r.trade[1])
                                  ELSE processed_trades
           /\ faults' = faults \cup (r.faults \cap AbortKinds)
           /\ discovered' = IF r.discoveries > 0
                             THEN Append(discovered, hex(Normalize(Head(logs)).token_id_int))
                             ELSE discovered
           /\ covered' = covered
           /\ logs' = IF Tail(logs) = <<>> /\ r.markets # markets
                      THEN get_logs(from_block, to_block)
                      ELSE Tail(logs)
    /\ UNCHANGED <<trades, last_block, pc, from_block, to_block, event_slug, ret>>

\* run.py 91-98: one iteration of the loop over the logs
ProcessLog(env) ==
    /\ pc = "loop"
    /\ logs # <<>>
    /\ LET r == decode_and_process_log(Head(logs), event_slug, markets,
                                       block_timestamp_cache, env)
       IN  /\ markets' = r.markets
           /\ block_timestamp_cache' = r.cache
           /\ processed_trades' = IF ~r.raised /\ r.trade # None
                                  THEN Append(processed_trades, r.trade[1])
                                  ELSE processed_trades
           /\ faults' = faults \cup (r.faults \cap AbortKinds)
           /\ discovered' = IF r.discoveries > 0
                             THEN Append(discovered, hex(Normalize(Head(logs)).token_id_int))
                             ELSE discovered
           /\ covered' = covered
    /\ logs' = Tail(logs)
    /\ UNCHANGED <<trades, last_block, pc, from_block, to_block, event_slug, ret>>

\* run.py 101-102: the batch is not empty and insert_trades is called
InsertBatch(failAt) ==
    /\ pc = "loop"
    /\ logs = <<>>
    /\ processed_trades # <<>>
    /\ LET r == insert_trades(trades, processed_trades, failAt)
       IN  /\ trades' = r.trades
           /\ pc' = IF r.raised THEN "idle" ELSE "checkpoint"
           /\ ret' = IF r.raised THEN Raised ELSE ret
           /\ faults' = faults \cup (IF failAt # 0 THEN {"insert_trades"} ELSE {})
           /\ discovered' = IF r.raised THEN <<>> ELSE discovered
           /\ covered' = IF r.raised THEN covered ELSE covered \cup (from_block..to_block)
           /\ processed_trades' = IF r.raised THEN <<>> ELSE processed_trades
           /\ from_block' = IF r.raised THEN 0 ELSE from_block
           /\ event_slug' = IF r.raised THEN "" ELSE event_slug
    /\ UNCHANGED <<markets, last_block, block_timestamp_cache, to_block, logs>>

\* an empty batch that nevertheless advances the checkpoint
ReturnEmpty_checkpoint ==
    /\ pc = "loop"
    /\ logs = <<>>
    /\ processed_trades = <<>>
    /\ pc' = "idle"
    /\ ret' = Returned(processed_trades)
    /\ processed_trades' = <<>>
    /\ from_block' = 0
    /\ event_slug' = ""
    /\ discovered' = <<>>
    /\ covered' = covered \cup (from_block..to_block)
    /\ last_block' = to_block
    /\ UNCHANGED <<markets, trades, block_timestamp_cache, to_block, logs, faults>>

\* run.py 101, 106: the batch is empty, nothing is written
ReturnEmpty ==
    /\ pc = "loop"
    /\ logs = <<>>
    /\ processed_trades = <<>>
    /\ pc' = "idle"
    /\ ret' = Returned(processed_trades)
    /\ processed_trades' = <<>>
    /\ from_block' = 0
    /\ event_slug' = ""
    /\ discovered' = <<>>
    /\ covered' = covered \cup (from_block..to_block)
    /\ UNCHANGED <<markets, trades, last_block, block_timestamp_cache, to_block, logs,
                   faults>>

\* run.py 103: update_sync_state(to_block)
Checkpoint(fail) ==
    /\ pc = "checkpoint"
    /\ LET r == update_sync_state(last_block, to_block, fail)
       IN  /\ last_block' = r.last_block
           /\ pc' = IF r.raised THEN "idle" ELSE "return"
           /\ ret' = IF r.raised THEN Raised ELSE ret
           /\ faults' = faults \cup (IF fail THEN {"update_sync_state"} ELSE {})
           /\ discovered' = IF r.raised THEN <<>> ELSE discovered
           /\ covered' = covered
           /\ processed_trades' = IF r.raised THEN <<>> ELSE processed_trades
           /\ from_block' = IF r.raised THEN 0 ELSE from_block
           /\ event_slug' = IF r.raised THEN "" ELSE event_slug
    /\ UNCHANGED <<markets, trades, block_timestamp_cache, to_block, logs>>

\* run.py 106: return processed_trades; the locals of the call are gone,
\* to_block stays as the caller's argument
Return ==
    /\ pc = "return"
    /\ pc' = "idle"
    /\ ret' = Returned(processed_trades)
    /\ processed_trades' = <<>>
    /\ from_block' = 0
    /\ event_slug' = ""
    /\ discovered' = <<>>
    /\ covered' = covered
    /\ UNCHANGED <<markets, trades, last_block, block_timestamp_cache, to_block, logs,
                   faults>>

\* the process dies inside run_indexer; the store keeps what was committed,
\* the next process builds a new Indexer with an empty cache
Crash ==
    /\ pc # "idle"
    /\ pc' = "idle"
    /\ logs' = <<>>
    /\ processed_trades' = <<>>
    /\ block_timestamp_cache' = {}
    /\ ret' = Crashed
    /\ from_block' = 0
    /\ to_block' = 0
    /\ event_slug' = ""
    /\ faults' = {}
    /\ discovered' = <<>>
    /\ covered' = covered
    /\ UNCHANGED <<markets, trades, last_block>>

\* demo.py 48-50: discovery called by main before a run
Discover(slug, fetchOk, upsertFailAt) ==
    /\ pc = "idle"
    /\ slug # ""
    /\ markets' = discover_and_store_markets(slug, markets, fetchOk, upsertFailAt).markets
    /\ ret' = NoReturn
    /\ faults' = {}
    /\ to_block' = 0
    /\ UNCHANGED <<trades, last_block, block_timestamp_cache, pc, from_block,
                   event_slug, logs, processed_trades, discovered, covered>>

Next ==
    \/ \E from \in Blocks, to \in Blocks, slug \in Slugs :
          from <= to /\ GetLogs(from, to, slug) /\ UNCHANGED <<track, call>>
    \/ \E from \in Blocks, to \in Blocks, slug \in Slugs :
          from <= to /\ GetLogsFails(from, to, slug) /\ UNCHANGED <<track, call>>
    \/ /\ pc = "loop" /\ logs # <<>>
       /\ \E env \in ObservableEnv(Head(logs), event_slug, markets, block_timestamp_cache) :
             ProcessLog(env) /\ UNCHANGED <<track, call>>
    \/ \E failAt \in 0..1 : InsertBatch(failAt) /\ UNCHANGED <<track, call>>
    \/ ReturnEmpty /\ UNCHANGED <<track, call>>
    \/ \E fail \in BOOLEAN : Checkpoint(fail) /\ UNCHANGED <<track, call>>
    \/ Return /\ UNCHANGED <<track, call>>
    \/ Crash /\ UNCHANGED <<track, call>>
    \/ \E slug \in Slugs, fetchOk \in BOOLEAN, upsertFailAt \in 0..1 :
          Discover(slug, fetchOk, upsertFailAt) /\ UNCHANGED <<track, call>>

Spec ==
    Init /\ [][Next]_vars

-----------------------------------------------------------------------------
(* Interrupted runs and their replay.  The collaborators answer every call, *)
(* so a run is a function of the store, the range and the slug.            *)

RECURSIVE RunLoop(_, _, _, _, _)
\* run.py 89-98 as one function: the loop over all logs of the range
RunLoop(ls, slug, tbl, cache, acc) ==
    IF ls = <<>> THEN [markets |-> tbl, batch |-> acc]
    ELSE LET r == decode_and_process_log(Head(ls), slug, tbl, cache, NoEnvFault)
         IN  RunLoop(Tail(ls), slug, r.markets, r.cache,
                     IF ~r.raised /\ r.trade # None THEN Append(acc, r.trade[1]) ELSE acc)

\* run.py 67-106 as one function: the store an uninterrupted run leaves
UninterruptedRun(st, from, to, slug) ==
    LET l == RunLoop(get_logs(from, to), slug, st.markets, {}, <<>>)
    IN  IF l.batch = <<>>
        THEN [markets |-> l.markets, trades |-> st.trades, last_block |-> st.last_block]
        ELSE [markets |-> l.markets,
              trades |-> insert_trades(st.trades, l.batch, 0).trades,
              last_block |-> update_sync_state(st.last_block, to, FALSE).last_block]

Overlap(f1, t1, f2, t2) ==
    f1 <= t2 /\ f2 <= t1

\* a run starts: it replays the interrupted run when it has the same slug and
\* an overlapping range, otherwise it is a first run and the store is recorded
TrackAtStart(from, to, slug) ==
    IF track.phase = "crashed" /\ slug = track.slug /\ Overlap(from, to, track.from, track.to)
    THEN [track EXCEPT !.phase = IF from = track.from /\ to = track.to
                                 THEN "replaySame" ELSE "replayOther",
                       !.rfrom = from, !.rto = to]
    ELSE [phase |-> "running", pre |-> Snapshot, from |-> from, to |-> to,
          slug |-> slug, rfrom |-> 0, rto |-> 0]

TrackAtEnd ==
    CASE track.phase = "replaySame" -> [track EXCEPT !.phase = "doneSame"]
      [] track.phase = "replayOther" -> [track EXCEPT !.phase = "doneOther"]
      [] OTHER -> NoTrack

\* a replay over another range that is interrupted too is not followed further
TrackAtCrash ==
    IF track.phase \in {"running", "replaySame"}
    THEN [track EXCEPT !.phase = "crashed"]
    ELSE NoTrack

TrackAtDiscover(slug) ==
    IF track.phase = "crashed" /\ slug = track.slug THEN track ELSE NoTrack

NextReplay ==
    \/ \E from \in Blocks, to \in Blocks, slug \in Slugs :
          /\ from <= to
          /\ GetLogs(from, to, slug)
          /\ track' = TrackAtStart(from, to, slug)
          /\ UNCHANGED call
    \/ ProcessLog(NoEnvFault) /\ UNCHANGED <<track, call>>
    \/ InsertBatch(0) /\ UNCHANGED <<track, call>>
    \/ ReturnEmpty /\ track' = TrackAtEnd /\ UNCHANGED call
    \/ Checkpoint(FALSE) /\ UNCHANGED <<track, call>>
    \/ Return /\ track' = TrackAtEnd /\ UNCHANGED call
    \/ Crash /\ track' = TrackAtCrash /\ UNCHANGED call
    \/ \E slug \in Slugs :
          Discover(slug, TRUE, 0) /\ track' = TrackAtDiscover(slug) /\ UNCHANGED call

ReplaySpec ==
    Init /\ [][NextReplay]_vars

-----------------------------------------------------------------------------
(* Direct calls of the Store API, as the tests make them *)

TradeInput(h, i, side) ==
    [tx_hash |-> h, log_index |-> i, market_id |-> 1, maker |-> "0xMaker",
     taker |-> "0xTaker", side |-> side, outcome |-> "YES", price |-> <<1, 2>>,
     size |-> <<100, 1>>, timestamp |-> 1000]

TradeInputs ==
    {TradeInput("0xaa", 0, "BUY"), TradeInput("0xaa", 0, "SELL"),
     TradeInput("0xaa", 1, "BUY")}

Batches ==
    UNION {[1..n -> TradeInputs] : n \in 0..MaxBatch}

\* store.insert_trades(trades_list) called directly
InsertTradesCall(trades_list, failAt) ==
    /\ pc = "idle"
    /\ LET r == insert_trades(trades, trades_list, failAt)
       IN  /\ trades' = r.trades
           /\ call' = [op |-> "insert_trades", batch |-> trades_list, failAt |-> failAt,
                       raised |-> r.raised, before |-> trades,
                       repeat |-> /\ call.op = "insert_trades"
                                  /\ ~call.raised
                                  /\ call.batch = trades_list,
                       committed |-> call.committed \cup
                                       (IF r.raised THEN {} ELSE Keys(trades_list))]
    /\ UNCHANGED <<markets, last_block, block_timestamp_cache, track>>
    /\ UNCHANGED runVars

\* store.update_sync_state(block_number) called directly
UpdateSyncStateCall(block_number, fail) ==
    /\ pc = "idle"
    /\ last_block' = update_sync_state(last_block, block_number, fail).last_block
    /\ call' = [NoCall EXCEPT !.op = "update_sync_state", !.raised = fail,
                              !.committed = call.committed]
    /\ UNCHANGED <<markets, trades, block_timestamp_cache, track>>
    /\ UNCHANGED runVars

NextStore ==
    \/ \E trades_list \in Batches :
          \E failAt \in (IF trades_list = <<>> THEN {0} ELSE 0..(Len(trades_list) + 1)) :
             InsertTradesCall(trades_list, failAt)
    \/ \E block_number \in 0..MaxSync, fail \in BOOLEAN :
          UpdateSyncStateCall(block_number, fail)

StoreSpec ==
    Init /\ [][NextStore]_vars

-----------------------------------------------------------------------------
(* One call of decode_and_process_log on a log, a slug, a store and a cache *)

AssetIds ==
    {0, 10, 11, 99}

Takers ==
    {ExchangeAddress, <<"0", "X", "4", "B", "f", "B">>, OtherTaker}

\* the logs handed to decode_and_process_log: the fields it reads
LogInputs ==
    {RawLog(1, 0, decodable, taker, makerAssetId, takerAssetId, makerAmount, takerAmount) :
        decodable \in BOOLEAN, taker \in Takers,
        makerAssetId \in AssetIds, takerAssetId \in AssetIds,
        makerAmount \in 0..MaxAmount, takerAmount \in 0..MaxAmount}

\* the markets table before the call: empty, or as discovery of "s1" leaves it
StoredMarkets ==
    {<<>>, discover_and_store_markets("s1", <<>>, TRUE, 0).markets}

InitDecode ==
    /\ markets \in StoredMarkets
    /\ trades = <<>>
    /\ last_block = 0
    /\ block_timestamp_cache \in {{}, {<<1, BlockTimestamp(1)>>}}
    /\ pc = "idle"
    /\ from_block = 0
    /\ to_block = 0
    /\ event_slug \in Slugs
    /\ logs \in {<<log>> : log \in LogInputs}
    /\ processed_trades = <<>>
    /\ ret = NoReturn
    /\ faults = {}
    /\ discovered = <<>>
    /\ covered = {}
    /\ track = NoTrack
    /\ call = NoCall

\* the call with the log's address left out of the self-fill comparison
DecodeAndProcessLogCall_nofilter(env) ==
    /\ call.op = "none"
    /\ LET r == decode_and_process_log([Head(logs) EXCEPT !.address = <<>>], event_slug,
                                       markets, block_timestamp_cache, env)
       IN  /\ markets' = r.markets
           /\ block_timestamp_cache' = r.cache
           /\ call' = [op |-> "decode_and_process_log", env |-> env, before |-> markets,
                       result |-> r]
    /\ UNCHANGED <<trades, last_block, track>>
    /\ UNCHANGED runVars

\* the call with the slug not handed on
DecodeAndProcessLogCall_noslug(env) ==
    /\ call.op = "none"
    /\ LET r == decode_and_process_log(Head(logs), "", markets, block_timestamp_cache, env)
       IN  /\ markets' = r.markets
           /\ block_timestamp_cache' = r.cache
           /\ call' = [op |-> "decode_and_process_log", env |-> env, before |-> markets,
                       result |-> r]
    /\ UNCHANGED <<trades, last_block, track>>
    /\ UNCHANGED runVars

\* indexer.decode_and_process_log(log, event_slug) called once
DecodeAndProcessLogCall(env) ==
    /\ call.op = "none"
    /\ LET r == decode_and_process_log(Head(logs), event_slug, markets,
                                       block_timestamp_cache, env)
       IN  /\ markets' = r.markets
           /\ block_timestamp_cache' = r.cache
           /\ call' = [op |-> "decode_and_process_log", env |-> env, before |-> markets,
                       result |-> r]
    /\ UNCHANGED <<trades, last_block, track>>
    /\ UNCHANGED runVars

NextDecode ==
    \E env \in EnvChoices : DecodeAndProcessLogCall(env)

DecodeSpec ==
    InitDecode /\ [][NextDecode]_vars

-----------------------------------------------------------------------------
(* Direct calls of Store.upsert_market with the dicts process_market_data makes *)

RegistryEntry(slug, conditionId, resolved) ==
    [slug |-> slug, conditionId |-> conditionId, questionID |-> None,
     active |-> TRUE, closed |-> FALSE, resolved |-> resolved,
     clobTokenIds |-> << <<"1", "1">>, <<"1", "0">> >>,
     outcomes |-> << <<"N", "o">>, <<"Y", "e", "s">> >>]

\* registry entries: one market while active and once resolved, another
\* market, and a market the registry lists without a conditionId
RegistryEntries ==
    {RegistryEntry("m-a", Some(<<"0", "x", "C", "1">>), FALSE),
     RegistryEntry("m-a", Some(<<"0", "x", "C", "1">>), TRUE),
     RegistryEntry("m-b", Some(<<"0", "x", "C", "2">>), FALSE),
     RegistryEntry("m-c", None, FALSE)}

MarketInputs ==
    {process_market_data(e)[1] : e \in RegistryEntries}

\* store.upsert_market(market_data) called directly
UpsertMarketCall(market_data, fail) ==
    /\ pc = "idle"
    /\ LET r == upsert_market(markets, market_data, fail)
       IN  /\ Len(r.markets) <= MaxMarkets
           /\ markets' = r.markets
           /\ call' = [op |-> "upsert_market", data |-> market_data, raised |-> r.raised,
                       before |-> markets,
                       repeat |-> /\ call.op = "upsert_market"
                                  /\ ~call.raised
                                  /\ ~r.raised
                                  /\ call.data = market_data]
    /\ UNCHANGED <<trades, last_block, block_timestamp_cache, track>>
    /\ UNCHANGED runVars

NextMarket ==
    \E market_data \in MarketInputs, fail \in BOOLEAN : UpsertMarketCall(market_data, fail)

MarketSpec ==
    Init /\ [][NextMarket]_vars

-----------------------------------------------------------------------------
(* Direct calls of Indexer.get_block_timestamp on one Indexer instance *)

\* the references made before the last call, oldest first
EarlierRefs ==
    IF call.op = "get_block_timestamp"
    THEN Append(call.refs, [block |-> call.block, timestamp |-> call.timestamp,
                            rpc |-> call.rpc, ok |-> call.ok])
    ELSE <<>>

\* indexer.get_block_timestamp(block_number); blockOk is the answer of
\* get_block, consulted only when the block is not cached
GetBlockTimestampCall(block_number, blockOk) ==
    /\ pc = "idle"
    /\ Len(EarlierRefs) < MaxCalls
    /\ block_number \in CachedBlocks(block_timestamp_cache) => blockOk
    /\ LET r == get_block_timestamp(block_timestamp_cache, block_number, blockOk)
       IN  /\ block_timestamp_cache' = r.cache
           /\ call' = [op |-> "get_block_timestamp", block |-> block_number,
                       timestamp |-> r.timestamp, rpc |-> r.rpc, ok |-> blockOk,
                       refs |-> EarlierRefs]
    /\ UNCHANGED <<markets, trades, last_block, track>>
    /\ UNCHANGED runVars

NextTimestamp ==
    \E block_number \in Blocks, blockOk \in BOOLEAN :
       GetBlockTimestampCall(block_number, blockOk)

TimestampSpec ==
    Init /\ [][NextTimestamp]_vars

-----------------------------------------------------------------------------
(* Direct calls of process_market_data on one registry entry, as the tests *)
(* of market_discovery make them                                           *)

DecimalChars ==
    <<"0", "1", "2", "3", "4", "5", "6", "7", "8", "9">>

RECURSIVE str(_)
\* the decimal text of a non-negative token id, as the registry lists it
str(n) ==
    IF n < 10 THEN <<DecimalChars[n + 1]>>
    ELSE Append(str(n \div 10), DecimalChars[(n % 10) + 1])

TokenIds ==
    0..MaxToken

\* the token texts of a registry entry: decimal texts, and a text that is
\* not decimal, as the entries of test_market_discovery.py have them
TokenTexts ==
    {str(T) : T \in TokenIds} \cup {<<"0", "x", "1">>}

OutcomeLabels ==
    {<<"Y", "e", "s">>, <<"N", "o">>, <<"Y", "E", "S">>, <<"n", "o">>, <<"U", "p">>}

ListsOver(S) ==
    UNION {[1..n -> S] : n \in 0..2}

RawMarkets ==
    [slug : {"m-a"},
     conditionId : {None, Some(<<"0", "x", "A", "B", "C">>)},
     questionID : {None},
     active : BOOLEAN, closed : BOOLEAN, resolved : BOOLEAN,
     clobTokenIds : ListsOver(TokenTexts),
     outcomes : ListsOver(OutcomeLabels)]

InitProcess ==
    /\ markets = <<>>
    /\ trades = <<>>
    /\ last_block = 0
    /\ block_timestamp_cache = {}
    /\ pc = "idle"
    /\ from_block = 0
    /\ to_block = 0
    /\ event_slug = ""
    /\ logs = <<>>
    /\ processed_trades = <<>>
    /\ ret = NoReturn
    /\ faults = {}
    /\ discovered = <<>>
    /\ covered = {}
    /\ track = NoTrack
    /\ call \in {[op |-> "input", market |-> m] : m \in RawMarkets}

\* process_market_data(market) called directly
ProcessMarketDataCall ==
    /\ call.op = "input"
    /\ call' = [op |-> "process_market_data", market |-> call.market,
                result |-> process_market_data(call.market)]
    /\ UNCHANGED <<markets, trades, last_block, block_timestamp_cache, track>>
    /\ UNCHANGED runVars

NextProcess ==
    ProcessMarketDataCall

ProcessSpec ==
    InitProcess /\ [][NextProcess]_vars

-----------------------------------------------------------------------------
(* Calls of discover_and_store_markets and upsert_market on one store, the *)
(* registry answering with the markets of an event                         *)

RegistryMarket(slug, conditionId, clobTokenIds, outcomes) ==
    [slug |-> slug, conditionId |-> conditionId, questionID |-> None,
     active |-> TRUE, closed |-> FALSE, resolved |-> FALSE,
     clobTokenIds |-> clobTokenIds, outcomes |-> outcomes]

\* the markets an event may list: one with a conditionId, one without, and
\* three whose outcomes cannot be matched to their tokens
EventMarkets ==
    {RegistryMarket("m-a", Some(<<"0", "x", "C", "1">>),
                    << <<"1", "1">>, <<"1", "0">> >>, << <<"N", "o">>, <<"Y", "e", "s">> >>),
     RegistryMarket("m-c", None,
                    << <<"3", "1">>, <<"3", "0">> >>, << <<"Y", "e", "s">>, <<"N", "o">> >>),
     RegistryMarket("m-x", Some(<<"0", "x", "C", "4">>),
                    << <<"4", "1">>, <<"4", "0">> >>, <<>>),
     RegistryMarket("m-y", Some(<<"0", "x", "C", "5">>),
                    <<>>, << <<"Y", "e", "s">>, <<"N", "o">> >>),
     RegistryMarket("m-z", Some(<<"0", "x", "C", "6">>),
                    << <<"5", "0">> >>, << <<"Y", "e", "s">>, <<"N", "o">> >>)}

\* what fetch_markets_by_slug may return: the markets of the events found
Events ==
    UNION {[1..n -> EventMarkets] : n \in 0..MaxEvent}

\* discover_and_store_markets(slug, store), raws being the registry's answer
DiscoverAndStoreMarketsCall(raws) ==
    /\ pc = "idle"
    /\ LET r == StoreMarkets(markets, raws, 1, 0)
       IN  /\ Len(r.markets) <= MaxMarkets
           /\ markets' = r.markets
           /\ call' = [op |-> "discover_and_store_markets", raws |-> raws,
                       count |-> r.count]
    /\ UNCHANGED <<trades, last_block, block_timestamp_cache, track>>
    /\ UNCHANGED runVars

NextDiscovery ==
    \/ \E raws \in Events : DiscoverAndStoreMarketsCall(raws)
    \/ \E m \in EventMarkets :
          /\ process_market_data(m) # None
          /\ UpsertMarketCall(process_market_data(m)[1], FALSE)

DiscoverySpec ==
    Init /\ [][NextDiscovery]_vars

-----------------------------------------------------------------------------
(* Properties *)

NoDuplicateKey(tbl) ==
    Cardinality(Keys(tbl)) = Len(tbl)

\* the columns of a row other than its id
Content(row) ==
    [row EXCEPT !.id = 0]

Contents(tbl) ==
    {Content(tbl[i]) : i \in 1..Len(tbl)}

\* C1: after any sequence of insert_trades calls the table holds exactly one
\* row per key submitted in a committed batch; a batch persisted a second
\* time leaves the rows as they were, and without a storage error the call
\* raises nothing.
C1_InsertIdempotent ==
    /\ NoDuplicateKey(trades)
    /\ Keys(trades) = call.committed
    /\ (call.op = "insert_trades" /\ call.repeat /\ ~call.raised) => trades = call.before
    /\ (call.op = "insert_trades" /\ call.failAt = 0) => ~call.raised

C1_Witness ==
    /\ call.op = "insert_trades"
    /\ call.repeat
    /\ ~call.raised
    /\ Len(call.batch) = 2
    /\ Len(trades) >= 2

\* C2: the checkpoint is written only in a state where every trade of the
\* run's batch is already in the store, and no step takes a key out of the
\* store; hence in every state, also after a crash, the keys of the batch
\* behind the checkpoint are stored.
C2_CheckpointAfterInsert ==
    [][ /\ (last_block' # last_block \/ (pc = "checkpoint" /\ pc' = "return"))
            => /\ processed_trades # <<>>
               /\ Keys(processed_trades) \subseteq Keys(trades)
               /\ last_block' = to_block
        /\ Keys(trades) \subseteq Keys(trades') ]_vars

\* a crash between insert_trades and update_sync_state
C2_Witness ==
    /\ ret = Crashed
    /\ trades # <<>>
    /\ last_block = 0

\* C3 as stated: the replay over the same or an overlapping range leaves the
\* trade rows and the checkpoint of an uninterrupted run over "that range",
\* read as the replayed range or as the interrupted range, whichever fits,
\* and the rows compared without their ids.
C3_ReplayAnyRange ==
    track.phase \in {"doneSame", "doneOther"} =>
        LET replayed == UninterruptedRun(track.pre, track.rfrom, track.rto, track.slug)
            first == UninterruptedRun(track.pre, track.from, track.to, track.slug)
        IN  \/ Contents(trades) = Contents(replayed.trades) /\ last_block = replayed.last_block
            \/ Contents(trades) = Contents(first.trades) /\ last_block = first.last_block

\* C3 amended: the replay over the same range leaves the trade rows and the
\* checkpoint of an uninterrupted run; the replay over a range that contains
\* the interrupted one leaves the same rows up to their ids, and the same
\* checkpoint; the replay over any overlapping range leaves every row of an
\* uninterrupted run over the replayed range, and no key twice.
C3_ReplaySameRange ==
    /\ track.phase = "doneSame" =>
          LET ref == UninterruptedRun(track.pre, track.from, track.to, track.slug)
          IN  trades = ref.trades /\ last_block = ref.last_block
    /\ track.phase = "doneOther" =>
          LET ref == UninterruptedRun(track.pre, track.rfrom, track.rto, track.slug)
          IN  /\ Contents(ref.trades) \subseteq Contents(trades)
              /\ NoDuplicateKey(trades)
              /\ (track.rfrom <= track.from /\ track.to <= track.rto)
                    => /\ Contents(trades) = Contents(ref.trades)
                       /\ last_block = ref.last_block

\* a replay over the same range has ended and the store holds rows the first run wrote
C3_Witness ==
    /\ track.phase = "doneSame"
    /\ Len(trades) > Len(track.pre.trades)
    /\ last_block = track.to

\* C4: from the start of a run to insert_trades the checkpoint is not
\* written, and the step in which insert_trades meets a storage error ends
\* the run with the exception and leaves the checkpoint as it was.
C4_InsertFailureSurfaced ==
    [][ /\ pc = "loop" => last_block' = last_block
        /\ ("insert_trades" \in faults' /\ "insert_trades" \notin faults)
            => /\ ret' = Raised
               /\ pc' = "idle"
               /\ last_block' = last_block ]_vars

C4_Witness ==
    /\ "insert_trades" \in faults
    /\ ret = Raised
    /\ pc = "idle"

\* C5: a storage error at any row of a batch, or at the commit, leaves the
\* trades table as before the call and raises; without a storage error the
\* call does not raise, whatever keys the batch repeats.
C5_BatchAtomic ==
    call.op = "insert_trades" =>
        /\ call.failAt # 0 => (call.raised /\ trades = call.before)
        /\ call.failAt = 0 => ~call.raised

\* the second row failed after the first, new, row had been written
C5_Witness ==
    /\ call.op = "insert_trades"
    /\ call.failAt = 2
    /\ Len(call.batch) = 2
    /\ Key(call.batch[1]) \notin Keys(trades)
    /\ call.raised

\* C6: the step in which get_logs fails changes no table: no trade, no
\* market, not the checkpoint.
C6_FetchFailureNoChange ==
    [][ (pc = "idle" /\ "get_logs" \in faults')
          => UNCHANGED <<markets, trades, last_block>> ]_vars

C6_Witness ==
    /\ "get_logs" \in faults
    /\ trades # <<>>
    /\ last_block # 0
    /\ pc = "idle"

\* C7: when get_logs failed, what the caller receives differs from what a
\* successful run over a range without trades returns, the empty list.
C7_FetchFailureSurfaced ==
    "get_logs" \in faults => ret # Returned(<<>>)

\* C8 as stated: after a run in which get_logs and every storage call
\* succeeded, get_sync_state() is to_block.
C8_CheckpointIsToBlock ==
    (pc = "idle" /\ ret.kind = "return" /\ faults = {}) => get_sync_state = to_block

\* C8 amended: after such a run that produced at least one trade,
\* get_sync_state() is to_block.
C8_CheckpointIsToBlockNonEmpty ==
    (pc = "idle" /\ ret.kind = "return" /\ faults = {} /\ ret.value # <<>>)
        => get_sync_state = to_block

C8_Witness ==
    /\ pc = "idle"
    /\ ret.kind = "return"
    /\ faults = {}
    /\ ret.value # <<>>
    /\ to_block = 1
    /\ Len(trades) >= 2

\* C9: the value of get_sync_state never decreases.
C9_CheckpointMonotonic ==
    [][last_block' >= last_block]_vars

\* C10: no step changes or removes a row of the trades table.
C10_TradeImmutable ==
    [][ \A i \in 1..Len(trades) : Len(trades') >= i /\ trades'[i] = trades[i] ]_vars

\* insert_trades was given a stored key with another timestamp
C10_Witness ==
    /\ pc = "checkpoint"
    /\ \E i \in 1..Len(trades), j \in 1..Len(processed_trades) :
          /\ Key(trades[i]) = Key(processed_trades[j])
          /\ trades[i].timestamp # processed_trades[j].timestamp

\* C11: a step of the loop never ends the run: whatever happens to the log
\* (undecodable, self-fill, unresolved, an exception out of discovery) the
\* loop goes on to the next log of the range; a log that decodes, is no
\* self-fill and resolves in the store adds its trade to the batch, whatever
\* happened to the logs before it; and the batch handed to insert_trades is
\* in the store when the checkpoint is reached.
C11_PerLogFailureSkipped ==
    [][ /\ (pc = "idle" /\ pc' = "loop") => logs' = get_logs(from_block', to_block')
        /\ (pc = "loop" /\ logs # <<>> /\ ret' # Crashed) =>
              LET log == Head(logs)
                  key == <<to_hex(log.transactionHash), log.logIndex>>
                  token == hex(Normalize(log).token_id_int)
                  usable == /\ log.decodable
                            /\ lower(log.taker) # lower(log.address)
                            /\ fetch_market_by_token_id(markets, token) # None
              IN  /\ pc' = "loop"
                  /\ logs' = Tail(logs)
                  /\ ret' = ret
                  /\ UNCHANGED <<from_block, to_block, event_slug, trades, last_block>>
                  /\ \/ processed_trades' = processed_trades /\ ~usable
                     \/ /\ Len(processed_trades') = Len(processed_trades) + 1
                        /\ SubSeq(processed_trades', 1, Len(processed_trades)) = processed_trades
                        /\ Key(processed_trades'[Len(processed_trades')]) = key
        /\ (pc = "loop" /\ pc' = "checkpoint") =>
              Keys(processed_trades) \subseteq Keys(trades') ]_vars

\* an upsert raised inside discovery for one log, and the trade of another
\* log of the same run is in the store
C11_Witness ==
    /\ pc = "checkpoint"
    /\ "upsert_market" \in faults
    /\ processed_trades # <<>>
    /\ Keys(processed_trades) \subseteq Keys(trades)

\* C12: no step changes or removes the id of a market row; after every step
\* each trade row carries the id of a row of the markets table, and each
\* trade of the batch carries the id of the market row that holds its token.
C12_TradeReferencesMarket ==
    [][ /\ \A i \in 1..Len(markets) :
              Len(markets') >= i /\ markets'[i].id = markets[i].id
        /\ \A i \in 1..Len(trades') :
              \E k \in 1..Len(markets') : markets'[k].id = trades'[i].market_id
        /\ \A j \in 1..Len(processed_trades') :
              \E k \in 1..Len(markets') :
                 /\ markets'[k].id = processed_trades'[j].market_id
                 /\ processed_trades'[j].token_id
                       \in {markets'[k].yes_token_id, markets'[k].no_token_id} ]_vars

\* discovery ran again, over the stored market, in a run that has a trade in
\* its batch while the store holds trades of an earlier run
C12_Witness ==
    /\ pc = "loop"
    /\ trades # <<>>
    /\ processed_trades # <<>>
    /\ discovered # <<>>
    /\ markets # <<>>

\* C14: within one run discovery is invoked at most once for a token id.
C14_DiscoveryOncePerToken ==
    \A i \in 1..Len(discovered), j \in 1..Len(discovered) :
       discovered[i] = discovered[j] => i = j

\* the log of the call reached the resolver: it decoded and is no self-fill
Resolving ==
    /\ call.op = "decode_and_process_log"
    /\ Head(logs).decodable
    /\ lower(Head(logs).taker) # lower(Head(logs).address)

CallToken ==
    hex(Normalize(Head(logs)).token_id_int)

\* C13 as stated: a hit on the first lookup means one lookup and no
\* discovery; a miss with a slug means exactly one discovery and then exactly
\* one more lookup; a miss without a slug means no discovery and no retry;
\* when the last lookup misses the log is dropped.
C13_ResolverProtocol ==
    Resolving =>
       LET r == call.result
           hit == fetch_market_by_token_id(call.before, CallToken) # None
       IN  /\ hit => r.lookups = 1 /\ r.discoveries = 0 /\ r.trade # None
           /\ (~hit /\ event_slug # "") => r.discoveries = 1 /\ r.lookups = 2
           /\ (~hit /\ event_slug = "") => r.discoveries = 0 /\ r.lookups = 1
           /\ fetch_market_by_token_id(markets, CallToken) = None => r.trade = None

\* C13 amended: as stated, except that a discovery that raises is not
\* followed by a second lookup: the exception leaves the call and no trade is
\* produced.
C13_ResolverProtocolUnlessRaised ==
    Resolving =>
       LET r == call.result
           hit == fetch_market_by_token_id(call.before, CallToken) # None
       IN  /\ hit => r.lookups = 1 /\ r.discoveries = 0 /\ r.trade # None /\ ~r.raised
           /\ (~hit /\ event_slug # "") =>
                 /\ r.discoveries = 1
                 /\ r.raised => r.lookups = 1 /\ r.trade = None
                 /\ ~r.raised => r.lookups = 2
           /\ (~hit /\ event_slug = "") =>
                 r.discoveries = 0 /\ r.lookups = 1 /\ ~r.raised
           /\ fetch_market_by_token_id(markets, CallToken) = None => r.trade = None
           /\ (~r.raised /\ fetch_market_by_token_id(markets, CallToken) # None)
                 => r.trade # None

\* the first lookup missed, discovery stored the market, the retry resolved it
C13_Witness ==
    /\ Resolving
    /\ call.before = <<>>
    /\ call.result.discoveries = 1
    /\ call.result.lookups = 2
    /\ call.result.trade # None

\* C15: the outcome of a produced trade is YES exactly when its token id is
\* the yes_token_id of the market row it references, otherwise NO and its
\* token id is that row's no_token_id; it is never empty.
C15_OutcomeByEquality ==
    (call.op = "decode_and_process_log" /\ call.result.trade # None) =>
       LET t == call.result.trade[1]
           m == markets[t.market_id]
       IN  /\ t.token_id = CallToken
           /\ t.outcome \in {"YES", "NO"}
           /\ t.outcome = "YES" <=> t.token_id = m.yes_token_id
           /\ t.outcome = "NO" => t.token_id = m.no_token_id

\* the market was stored by the discovery of this call and the token is its NO token
C15_Witness ==
    /\ call.op = "decode_and_process_log"
    /\ call.before = <<>>
    /\ call.result.discoveries = 1
    /\ call.result.trade # None
    /\ call.result.trade[1].outcome = "NO"

\* C16: a log whose taker is the log's address, compared as the code does
\* without regard to letter case, gives no trade, no lookup and no
\* discovery, and leaves the markets table as it was.
C16_SelfFillDropped ==
    (/\ call.op = "decode_and_process_log"
     /\ lower(Head(logs).taker) = lower(Head(logs).address)) =>
        /\ call.result.trade = None
        /\ call.result.lookups = 0
        /\ call.result.discoveries = 0
        /\ ~call.result.raised
        /\ markets = call.before

\* a decodable self-fill of a token that is not stored, with a slug at hand
C16_Witness ==
    /\ call.op = "decode_and_process_log"
    /\ Head(logs).decodable
    /\ Head(logs).taker = Head(logs).address
    /\ Head(logs).makerAssetId = 0
    /\ Head(logs).takerAssetId = 10
    /\ event_slug # ""
    /\ call.before = <<>>

\* C17: a produced trade has, for makerAssetId = 0, side BUY, token id
\* takerAssetId, size takerAmountFilled and price makerAmountFilled /
\* takerAmountFilled; for makerAssetId # 0, whatever takerAssetId is, side
\* SELL, token id makerAssetId, size makerAmountFilled and price
\* takerAmountFilled / makerAmountFilled (the price where the divisor is not 0).
C17_RuleTable ==
    (call.op = "decode_and_process_log" /\ call.result.trade # None) =>
       LET t == call.result.trade[1]
           a == Head(logs)
       IN  /\ a.makerAssetId = 0 =>
                 /\ t.side = "BUY"
                 /\ t.token_id = hex(a.takerAssetId)
                 /\ t.size = <<a.takerAmountFilled, 1>>
                 /\ a.takerAmountFilled # 0 =>
                       /\ t.price[2] > 0
                       /\ t.price[1] * a.takerAmountFilled = a.makerAmountFilled * t.price[2]
           /\ a.makerAssetId # 0 =>
                 /\ t.side = "SELL"
                 /\ t.token_id = hex(a.makerAssetId)
                 /\ t.size = <<a.makerAmountFilled, 1>>
                 /\ a.makerAmountFilled # 0 =>
                       /\ t.price[2] > 0
                       /\ t.price[1] * a.makerAmountFilled = a.takerAmountFilled * t.price[2]

\* a SELL whose takerAssetId is not 0, with different amounts
C17_Witness ==
    /\ call.op = "decode_and_process_log"
    /\ call.result.trade # None
    /\ Head(logs).makerAssetId = 11
    /\ Head(logs).takerAssetId = 10
    /\ Head(logs).makerAmountFilled = 2
    /\ Head(logs).takerAmountFilled = 1

\* C18: when the divisor of the price is 0 the call raises nothing on
\* account of it: a log whose token is stored gives a trade, and every trade
\* produced has price 0 and the side, token id and size of the rule table.
C18_ZeroDivisor ==
    LET a == Head(logs)
        divisor == IF a.makerAssetId = 0 THEN a.takerAmountFilled ELSE a.makerAmountFilled
    IN  (Resolving /\ divisor = 0) =>
           /\ fetch_market_by_token_id(call.before, CallToken) # None
                 => ~call.result.raised /\ call.result.trade # None
           /\ call.result.trade # None =>
                 LET t == call.result.trade[1]
                 IN  /\ t.price = <<0, 1>>
                     /\ t.side = (IF a.makerAssetId = 0 THEN "BUY" ELSE "SELL")
                     /\ t.token_id = CallToken
                     /\ t.size = <<0, 1>>

\* a BUY with a nonzero dividend over a zero divisor
C18_Witness ==
    /\ call.op = "decode_and_process_log"
    /\ call.result.trade # None
    /\ Head(logs).makerAssetId = 0
    /\ Head(logs).makerAmountFilled = 1
    /\ Head(logs).takerAmountFilled = 0

\* C19: an upsert whose condition_id no row has appends a row; otherwise it
\* updates slug, question_id, yes_token_id, no_token_id and status of the
\* row with that condition_id and keeps every id and condition_id; no two
\* rows have the same condition_id; an upsert of the data just upserted
\* leaves the table as it was.
C19_UpsertKeyed ==
    /\ \A i \in 1..Len(markets), j \in 1..Len(markets) :
          markets[i].condition_id = markets[j].condition_id => i = j
    /\ (call.op = "upsert_market" /\ call.repeat) => markets = call.before
    /\ (call.op = "upsert_market" /\ ~call.raised) =>
          LET d == call.data
              same == {i \in 1..Len(call.before) : call.before[i].condition_id = d.condition_id}
          IN  /\ same = {} =>
                    /\ Len(markets) = Len(call.before) + 1
                    /\ SubSeq(markets, 1, Len(call.before)) = call.before
                    /\ [markets[Len(markets)] EXCEPT !.id = 0] = [id |-> 0] @@ d
              /\ same # {} =>
                    /\ Len(markets) = Len(call.before)
                    /\ \A i \in 1..Len(markets) :
                          /\ markets[i].id = call.before[i].id
                          /\ markets[i].condition_id = call.before[i].condition_id
                          /\ i \in same => [markets[i] EXCEPT !.id = 0] = [id |-> 0] @@ d
                          /\ i \notin same => markets[i] = call.before[i]

\* C20 as stated: get_block is invoked on the first reference to a block
\* number and on no later one; a later reference returns the value the
\* earlier references returned.
C20_Memoized ==
    call.op = "get_block_timestamp" =>
       LET earlier == {i \in 1..Len(call.refs) : call.refs[i].block = call.block}
       IN  /\ earlier = {} => call.rpc
           /\ earlier # {} =>
                 /\ ~call.rpc
                 /\ \A i \in earlier : call.refs[i].timestamp = call.timestamp

\* C20 amended: get_block is invoked on a reference to a block number
\* exactly when no earlier reference to it was answered by get_block with a
\* timestamp; after such an answer every later reference returns that
\* timestamp without an RPC call, while a failed get_block returns 0 and is
\* asked again on the next reference.
C20_MemoizedAfterSuccess ==
    call.op = "get_block_timestamp" =>
       LET answered == {i \in 1..Len(call.refs) :
                           /\ call.refs[i].block = call.block
                           /\ call.refs[i].rpc
                           /\ call.refs[i].ok}
       IN  /\ answered = {} => call.rpc
           /\ answered # {} =>
                 /\ ~call.rpc
                 /\ \A i \in answered : call.refs[i].timestamp = call.timestamp
           /\ (call.rpc /\ ~call.ok) => call.timestamp = 0

\* a third reference to a block: the first failed, the second was answered
C20_Witness ==
    /\ call.op = "get_block_timestamp"
    /\ ~call.rpc
    /\ \E i \in 1..Len(call.refs), j \in 1..Len(call.refs) :
          /\ i < j
          /\ call.refs[i].block = call.block /\ call.refs[i].rpc /\ ~call.refs[i].ok
          /\ call.refs[j].block = call.block /\ call.refs[j].rpc /\ call.refs[j].ok

-----------------------------------------------------------------------------
(* Claims on the registry ingestion *)

\* the positions of the outcomes equal to label, ignoring case
PositionsOf(market, label) ==
    {i \in 1..Len(market.outcomes) : upper(market.outcomes[i]) = label}

\* the readings of "the token id at position i": the registry's text or
\* its canonical encoding
TokenIdAt(market, i) ==
    LET text == market.clobTokenIds[i]
    IN  {Join(text)} \cup (IF IsDecimal(text) THEN {hex(int(text))} ELSE {})

\* C21: for a registry entry whose outcomes and clobTokenIds have the same
\* (non-zero) length, process_market_data returns a dict whose yes_token_id
\* is the token id at a position of an outcome equal to YES, ignoring case,
\* and whose no_token_id is the token id at a position of an outcome equal to
\* NO, whatever the order of the outcomes; condition_id is the lowercased
\* conditionId and status is ACTIVE when the entry is active and neither
\* closed nor resolved.
C21_OutcomeByPosition ==
    (/\ call.op = "process_market_data"
     /\ Len(call.market.outcomes) = Len(call.market.clobTokenIds)
     /\ Len(call.market.outcomes) > 0)
    => /\ call.result # None
       /\ LET m == call.market
              d == call.result[1]
          IN  /\ PositionsOf(m, "YES") # {}
                 => \E i \in PositionsOf(m, "YES") : d.yes_token_id \in TokenIdAt(m, i)
              /\ PositionsOf(m, "NO") # {}
                 => \E i \in PositionsOf(m, "NO") : d.no_token_id \in TokenIdAt(m, i)
              /\ m.conditionId # None => d.condition_id = lower(m.conditionId[1])
              /\ (m.active /\ ~m.closed /\ ~m.resolved) => d.status = "ACTIVE"

-----------------------------------------------------------------------------
(* Claims on the run: checkpoint meaning, empty batch, single pass, batch *)

\* C22: whenever get_sync_state() is B, every block of 1..B lies inside the
\* range of some run that finished its loop and, when its batch was not
\* empty, its insert: no block at or below the checkpoint is unprocessed.
C22_CheckpointCovered ==
    \A b \in 1..get_sync_state : b \in covered

\* C23: a run whose batch is empty when its loop ends calls neither
\* insert_trades nor update_sync_state: no step of the run up to and including
\* its return changes the trades table or the checkpoint, and the run returns
\* the empty list.
C23_EmptyBatchNoWrite ==
    [][/\ (pc \in {"idle", "loop"} /\ pc' = "loop" /\ processed_trades' = <<>>)
          => (trades' = trades /\ last_block' = last_block)
       /\ (pc = "loop" /\ logs = <<>> /\ processed_trades = <<>> /\ ret' # Crashed)
          => (/\ trades' = trades
              /\ last_block' = last_block
              /\ ret' = Returned(<<>>)
              /\ pc' = "idle")]_vars

\* a run over block 1 returned the empty list although the market of its
\* first log is stored by now: every log of the range was dropped
C23_Witness ==
    /\ pc = "idle"
    /\ ret = Returned(<<>>)
    /\ faults = {}
    /\ to_block = 1
    /\ markets # <<>>
    /\ trades = <<>>
    /\ last_block = 0

LogKey(log) ==
    <<to_hex(log.transactionHash), log.logIndex>>

RECURSIVE KeysInOrder(_, _)
\* the trades of batch are trades of distinct logs of ls, in the order of ls
KeysInOrder(batch, ls) ==
    IF batch = <<>> THEN TRUE
    ELSE IF ls = <<>> THEN FALSE
    ELSE IF Key(Head(batch)) = LogKey(Head(ls))
         THEN KeysInOrder(Tail(batch), Tail(ls))
         ELSE KeysInOrder(batch, Tail(ls))

\* C24: a run goes over the logs of its range once, in order: the logs still
\* to process are always the rest of the range, a step of the loop takes
\* exactly the next log and no step brings a processed log back; each
\* processed log has at most one trade in the batch (otherwise it is Dropped),
\* and when the loop and the insert are over every trade of the batch is in
\* the store (Persisted).
C24_SinglePass ==
    [][pc' \in {"loop", "checkpoint", "return"} =>
          LET all == get_logs(from_block', to_block')
              done == Len(all) - Len(logs')
          IN  /\ done >= 0
              /\ logs' = SubSeq(all, done + 1, Len(all))
              /\ pc = "loop" => IF logs = <<>> THEN logs' = <<>>
                                ELSE Len(logs') = Len(logs) - 1
              /\ KeysInOrder(processed_trades', SubSeq(all, 1, done))
              /\ pc' \in {"checkpoint", "return"} =>
                    /\ logs' = <<>>
                    /\ Keys(processed_trades') \subseteq Keys(trades')]_vars

\* a run is about to return; one log of its range decodes, is no self-fill
\* and has its market in the store by now, yet has no trade in the batch nor
\* in the store: it was dropped before a later log's discovery stored the
\* market, and was not processed again
C24_Witness ==
    /\ pc = "return"
    /\ logs = <<>>
    /\ \E i \in 1..Len(get_logs(from_block, to_block)) :
          LET log == get_logs(from_block, to_block)[i]
          IN  /\ log.decodable
              /\ lower(log.taker) # lower(log.address)
              /\ fetch_market_by_token_id(markets, hex(Normalize(log).token_id_int)) # None
              /\ LogKey(log) \notin Keys(processed_trades)
              /\ LogKey(log) \notin Keys(trades)

\* the log decodes, is no self-fill and its token resolves in the store
Accepted(log) ==
    /\ log.decodable
    /\ lower(log.taker) # lower(log.address)
    /\ fetch_market_by_token_id(markets, hex(Normalize(log).token_id_int)) # None

\* batch holds one trade for each accepted log of the range, in the order of
\* get_logs, and nothing else
BatchOfRange(batch) ==
    LET good == SelectSeq(get_logs(from_block, to_block), Accepted)
    IN  /\ Len(batch) = Len(good)
        /\ \A i \in 1..Len(good) :
              /\ Key(batch[i]) = LogKey(good[i])
              /\ batch[i].token_id = hex(Normalize(good[i]).token_id_int)
              /\ batch[i].block_number = good[i].blockNumber

\* C25: when the loop of a run is over, the batch (which is handed to
\* insert_trades when it is not empty) holds exactly one trade for each log
\* of the range that decodes, is no self-fill and resolves to a market, in
\* the order in which get_logs delivered the logs, and the run returns that
\* same list, including the trades whose key the store already holds.
C25_BatchExact ==
    [][/\ (pc = "loop" /\ logs = <<>> /\ ret' # Crashed)
          => BatchOfRange(processed_trades)
       /\ (pc = "loop" /\ pc' = "checkpoint")
          => Keys(trades') = Keys(trades) \cup Keys(processed_trades)
       /\ (pc \in {"loop", "return"} /\ pc' = "idle" /\ ret' # Crashed)
          => (ret' = Returned(processed_trades) /\ BatchOfRange(processed_trades))]_vars

\* the loop of a replay is over and its batch holds two trades, both with
\* keys the store already holds from the interrupted run
C25_Witness ==
    /\ pc = "loop"
    /\ logs = <<>>
    /\ track.phase = "replaySame"
    /\ Len(processed_trades) = 2
    /\ Keys(processed_trades) \subseteq Keys(trades)

-----------------------------------------------------------------------------
(* Claims on the markets table and the token encoding *)

\* the rows of the markets table that a lookup of token_id matches
RowsOfToken(tbl, token_id) ==
    {k \in 1..Len(tbl) : tbl[k].yes_token_id = token_id \/ tbl[k].no_token_id = token_id}

\* C26: in every state of the markets table reached by calls of
\* discover_and_store_markets and upsert_market, the yes_token_id and the
\* no_token_id of each row differ and no token id is the yes_token_id or
\* no_token_id of two rows.
C26_TokenUnique ==
    \A k \in 1..Len(markets) :
       /\ markets[k].yes_token_id # markets[k].no_token_id
       /\ \A token_id \in {markets[k].yes_token_id, markets[k].no_token_id} \ {NULL} :
             RowsOfToken(markets, token_id) = {k}

\* the outcomes of the registry market cannot be matched to its tokens
Mismatched(market) ==
    \/ market.outcomes = <<>>
    \/ market.clobTokenIds = <<>>
    \/ Len(market.outcomes) # Len(market.clobTokenIds)

\* C29: process_market_data returns None for a market whose outcomes list is
\* empty, whose token list is empty or whose lists differ in length; a call
\* of discover_and_store_markets stores no row for such a market and does not
\* count it, and stores and counts every other market of the same event.
C29_MismatchRejected ==
    [][call'.op = "discover_and_store_markets" =>
          LET raws == call'.raws
              bad == {i \in 1..Len(raws) : Mismatched(raws[i])}
              good == (1..Len(raws)) \ bad
          IN  /\ \A i \in bad :
                    /\ process_market_data(raws[i]) = None
                    /\ \A k \in 1..Len(markets') : markets'[k].slug # raws[i].slug
              /\ call'.count = Cardinality(good)
              /\ Len(markets') <= Len(markets) + Cardinality(good)
              /\ \A i \in good :
                    \E k \in 1..Len(markets') :
                       /\ markets'[k].slug = raws[i].slug
                       /\ markets'[k].condition_id = LowerOpt(raws[i].conditionId)
                       /\ markets'[k].yes_token_id # NULL
                       /\ markets'[k].no_token_id # NULL]_vars

\* a discovery of an event of two markets counted one and stored its row,
\* the other market having one token for two outcomes
C29_Witness ==
    /\ call.op = "discover_and_store_markets"
    /\ Len(call.raws) = 2
    /\ call.count = 1
    /\ call.raws[1].slug = "m-z"
    /\ Mismatched(call.raws[1])
    /\ call.raws[2].slug = "m-a"
    /\ \E k \in 1..Len(markets) : markets[k].slug = "m-a"

\* the position whose token process_market_data keeps for label: the last one
LastPosition(market, label) ==
    CHOOSE i \in PositionsOf(market, label) : \A j \in PositionsOf(market, label) : j <= i

\* the OrderFilled logs of fills on asset T: the maker buys T, the maker sells T
FillsOn(T) ==
    {RawLog(1, 0, TRUE, OtherTaker, 0, T, 1, 1)}
    \cup (IF T # 0 THEN {RawLog(1, 0, TRUE, OtherTaker, T, 0, 1, 1)} ELSE {})

\* C27: for every token id T, when process_market_data keeps the token that
\* the registry gives as the decimal text of T, the string it stores is the
\* string the normalizer builds for asset T, hex(T), and in a store holding
\* that market every fill on asset T resolves to the market's row.
C27_CanonicalEncoding ==
    (call.op = "process_market_data" /\ call.result # None) =>
       \A label \in {"YES", "NO"} :
          PositionsOf(call.market, label) # {} =>
             LET text == call.market.clobTokenIds[LastPosition(call.market, label)]
                 d == call.result[1]
                 stored == IF label = "YES" THEN d.yes_token_id ELSE d.no_token_id
             IN  \A T \in TokenIds :
                    text = str(T) =>
                       /\ stored = hex(T)
                       /\ \A log \in FillsOn(T) :
                             LET tbl == upsert_market(<<>>, d, FALSE).markets
                                 r == decode_and_process_log(log, "", tbl, {}, NoEnvFault)
                             IN  /\ r.trade # None
                                 /\ r.trade[1].token_id = stored
                                 /\ r.trade[1].market_id = tbl[1].id

\* process_market_data kept the tokens 16 and 10, whose decimal and
\* hexadecimal texts differ in their digits and their lengths
C27_Witness ==
    /\ call.op = "process_market_data"
    /\ call.market.clobTokenIds = <<str(16), str(10)>>
    /\ call.result # None
    /\ call.result[1].yes_token_id = "0x10"
    /\ call.result[1].no_token_id = "0xa"

-----------------------------------------------------------------------------
(* Claims on a failing get_block *)

\* C28: a step of the loop on a log whose market is in the store adds the
\* log's trade to the batch and goes on, whatever get_block answers: the
\* trade carries the block's timestamp, or 0 when get_block failed; 0 is
\* never put in the cache, so after a trade with timestamp 0 the block is not
\* cached and the next reference to it calls get_block; and the insert of
\* the batch stores the trade with its timestamp 0.
C28_TimestampFailureTolerated ==
    [][/\ (pc = "loop" /\ logs # <<>> /\ ret' # Crashed) =>
             LET b == Head(logs).blockNumber
                 n == Len(processed_trades)
             IN  /\ pc' = "loop"
                 /\ ret' = ret
                 /\ \A e \in block_timestamp_cache' : e[2] # 0
                 /\ Accepted(Head(logs)) => Len(processed_trades') = n + 1
                 /\ Len(processed_trades') = n + 1 =>
                       LET t == processed_trades'[n + 1]
                       IN  /\ t.block_number = b
                           /\ t.timestamp \in {0, BlockTimestamp(b)}
                           /\ t.timestamp # 0 => <<b, t.timestamp>> \in block_timestamp_cache'
                           /\ t.timestamp = 0 =>
                                 /\ b \notin CachedBlocks(block_timestamp_cache')
                                 /\ get_block_timestamp(block_timestamp_cache', b, TRUE).rpc
       /\ (pc = "loop" /\ pc' = "checkpoint") =>
             \A j \in 1..Len(processed_trades) :
                (processed_trades[j].timestamp = 0
                 /\ Key(processed_trades[j]) \notin Keys(trades))
                => \E i \in 1..Len(trades') :
                      /\ Key(trades'[i]) = Key(processed_trades[j])
                      /\ trades'[i].timestamp = 0]_vars

\* a trade is in the store with timestamp 0, and a later run on the same
\* Indexer produced the trade of the same log with the block's timestamp:
\* the failed answer was not cached and get_block was called again
C28_Witness ==
    /\ pc = "checkpoint"
    /\ \E i \in 1..Len(trades), j \in 1..Len(processed_trades) :
          /\ trades[i].timestamp = 0
          /\ Key(processed_trades[j]) = Key(trades[i])
          /\ processed_trades[j].timestamp = BlockTimestamp(processed_trades[j].block_number)
          /\ <<processed_trades[j].block_number, processed_trades[j].timestamp>>
                \in block_timestamp_cache

====
